---- MODULE Spec2Model ----
(***************************************************************************)
(* Model of src/api/index.js: an edge handler that forwards each inbound   *)
(* request to one of two origins (DOMAIN_MAIN, DOMAIN_BACKUP).  The path   *)
(* /api/notice probes the primary, records the outcome in the KV key       *)
(* primary_status and falls back to the backup; every other path is routed *)
(* from the recorded status.                                               *)
(*                                                                         *)
(* Strings are sequences of tokens ("https:", "/", "A", "?", ...): a token *)
(* stands for a run of characters that contains no separator.              *)
(* Two handler invocations may overlap (Slots); a slot is taken again by a *)
(* later request once its invocation has returned and its detached KV      *)
(* write has settled.  An action is the code that runs between two awaits  *)
(* of one invocation, or one step of the environment (an origin answering, *)
(* a KV write landing, the TTL expiring).                                  *)
(***************************************************************************)
EXTENDS Integers, Sequences, FiniteSets, TLC

VARIABLES env, kv, h, served, hist

vars == <<env, kv, h, served, hist>>

\* Number of requests a behaviour serves.
MaxReqs == 2

\* The handler invocations that may be in progress at the same time.
Slots == {"s1", "s2"}

----------------------------------------------------------------------------
\* JavaScript values of process.env.X: undefined or a string.
Undefined == [t |-> "undefined", s |-> <<>>]

Str(s) == [t |-> "string", s |-> s]

\* Origin strings the environment may hold.
OriginA == <<"https:", "/", "/", "A">>

OriginB == <<"https:", "/", "/", "B">>

EnvValuesMain == {Undefined, Str(OriginA), Str(OriginA \o <<"/">>),
                  Str(OriginA \o <<"/", "p">>)}

EnvValuesBackup == {Str(<<>>), Str(<<"/">>), Str(OriginB), Str(OriginB \o <<"/">>),
                    Str(OriginB \o <<"/", "p">>)}

\* process.env as read at lines 19-20: the pairs the model starts from.
EnvPairs ==
    { e \in [DOMAIN_MAIN : EnvValuesMain, DOMAIN_BACKUP : EnvValuesBackup] :
        \/ e.DOMAIN_MAIN = Str(OriginA) /\ e.DOMAIN_BACKUP \in {Str(<<>>), Str(<<"/">>)}
        \/ e.DOMAIN_MAIN = Undefined /\ e.DOMAIN_BACKUP = Str(OriginB)
        \/ e.DOMAIN_MAIN = Str(OriginA \o <<"/">>) /\ e.DOMAIN_BACKUP = Str(OriginB)
        \/ e.DOMAIN_MAIN = Str(OriginA \o <<"/", "p">>) /\ e.DOMAIN_BACKUP = Str(OriginB \o <<"/", "p">>) }

\* const normalizeDomain = (domain) => ...
normalizeDomain(domain) ==
    IF domain.t = "undefined" \/ domain.s = <<>> THEN <<>>
    ELSE IF domain.s[Len(domain.s)] = "/"
         THEN SubSeq(domain.s, 1, Len(domain.s) - 1)
         ELSE domain.s

DOMAIN_MAIN == normalizeDomain(env.DOMAIN_MAIN)

DOMAIN_BACKUP == normalizeDomain(env.DOMAIN_BACKUP)

\* Mutant of ConfigMissing: && in place of ||.
ConfigMissingBoth(main, backup) == main = <<>> /\ backup = <<>>

\* if (!DOMAIN_MAIN || !DOMAIN_BACKUP)
ConfigMissing(main, backup) == main = <<>> \/ backup = <<>>

----------------------------------------------------------------------------
\* new URL(relative, base) of the WHATWG URL standard, for a base
\* "https://host[/prefix...]" and a relative reference that starts with "/"
\* (url.pathname always does).

\* Index of the first token of s at or after i that is in stop; Len(s)+1 if none.
RECURSIVE FindFrom(_, _, _)
FindFrom(s, i, stop) ==
    IF i > Len(s) THEN Len(s) + 1
    ELSE IF s[i] \in stop THEN i
    ELSE FindFrom(s, i + 1, stop)

\* Index of the first token of s at or after i that is not "/".
RECURSIVE SkipSlashes(_, _)
SkipSlashes(s, i) ==
    IF i > Len(s) THEN Len(s) + 1
    ELSE IF s[i] = "/" THEN SkipSlashes(s, i + 1)
    ELSE i

Tail2(s, i) == IF i > Len(s) THEN <<>> ELSE SubSeq(s, i, Len(s))

InvalidURL == [ok |-> FALSE, scheme |-> "", host |-> <<>>, path |-> <<>>, search |-> <<>>]

\* The base string parsed on its own: scheme "//" host [path].
ParseBase(base) ==
    IF Len(base) >= 4 /\ base[1] = "https:" /\ base[2] = "/" /\ base[3] = "/"
    THEN LET hs == SkipSlashes(base, 2)
             he == FindFrom(base, hs, {"/", "?"})
             qs == FindFrom(base, he, {"?"})
         IN IF he = hs THEN InvalidURL
            ELSE [ok |-> TRUE, scheme |-> base[1],
                  host |-> SubSeq(base, hs, he - 1),
                  path |-> IF qs = he THEN <<"/">> ELSE SubSeq(base, he, qs - 1),
                  search |-> Tail2(base, qs)]
    ELSE InvalidURL

\* new URL(rel, base): a reference that starts with two slashes is
\* scheme-relative (its first segment is the host), one that starts with a
\* single slash is path-absolute (it replaces the whole path of the base).
NewURL(rel, base) ==
    LET b == ParseBase(base) IN
    IF ~b.ok \/ rel = <<>> \/ rel[1] # "/" THEN InvalidURL
    ELSE IF Len(rel) >= 2 /\ rel[2] = "/"
    THEN LET hs == SkipSlashes(rel, 1)
             he == FindFrom(rel, hs, {"/", "?"})
             qs == FindFrom(rel, he, {"?"})
         IN IF he = hs THEN InvalidURL
            ELSE [ok |-> TRUE, scheme |-> b.scheme,
                  host |-> SubSeq(rel, hs, he - 1),
                  path |-> IF qs = he THEN <<"/">> ELSE SubSeq(rel, he, qs - 1),
                  search |-> Tail2(rel, qs)]
    ELSE LET qs == FindFrom(rel, 1, {"?"})
         IN [ok |-> TRUE, scheme |-> b.scheme, host |-> b.host,
             path |-> SubSeq(rel, 1, qs - 1), search |-> Tail2(rel, qs)]

\* URL.href
Href(u) == <<u.scheme, "/", "/">> \o u.host \o u.path \o u.search

----------------------------------------------------------------------------
\* Request and response values.

Null == [kind |-> "null", data |-> ""]

Stream(d) == [kind |-> "stream", data |-> d]

Buffer(d) == [kind |-> "buffer", data |-> d]

\* url.pathname === '/api/notice'
NoticePath == <<"/", "api", "/", "notice">>

\* The inbound requests the model draws from: request.url is
\* "https://P" \o pathname \o search, headers are (name, value) pairs.
Requests ==
    { [method |-> "POST", host |-> <<"P">>, pathname |-> NoticePath, search |-> <<>>,
       headers |-> {<<"host", "P">>, <<"content-type", "json">>}, body |-> Stream("b1")],
      [method |-> "GET", host |-> <<"P">>, pathname |-> NoticePath, search |-> <<"?", "t=1">>,
       headers |-> {<<"host", "P">>}, body |-> Null],
      [method |-> "GET", host |-> <<"P">>, pathname |-> <<"/", "widgets">>, search |-> <<"?", "id=9">>,
       headers |-> {<<"host", "P">>, <<"x-forwarded-host", "Z">>}, body |-> Null],
      [method |-> "POST", host |-> <<"P">>, pathname |-> <<"/", "widgets">>, search |-> <<>>,
       headers |-> {<<"host", "P">>}, body |-> Stream("b2")],
      [method |-> "GET", host |-> <<"P">>, pathname |-> <<"/", "/", "E", "/", "x">>, search |-> <<>>,
       headers |-> {<<"host", "P">>}, body |-> Null] }

NoReq == [method |-> "", host |-> <<>>, pathname |-> <<>>, search |-> <<>>,
          headers |-> {}, body |-> Null]

\* Status codes an origin may answer with.
Statuses == {200, 204, 302, 500}

\* Response.ok
Ok(status) == status >= 200 /\ status <= 299

\* The response an origin produced: who answered, the status, the Location header.
OriginResponse(from, status) ==
    [from |-> from, status |-> status,
     location |-> IF status >= 300 /\ status <= 399 THEN "L" ELSE "none"]

\* new Response('Configuration Error: ...', { status: 500 })
ConfigErrorResponse == [from |-> "proxy", status |-> 500, location |-> "none"]

\* new Response('Bad Request: Unable to read body', { status: 400 })
BadRequestResponse == [from |-> "proxy", status |-> 400, location |-> "none"]

\* The handler's promise rejected: the caller gets no response of the handler.
Rejected == [from |-> "rejected", status |-> 0, location |-> "none"]

NoResp == [from |-> "none", status |-> 0, location |-> "none"]

\* Mutant of createProxyRequest: only GET is taken as a method without a body.
createProxyRequestGetOnly(targetDomain, originalReq, bodyOverride) ==
    LET targetUrl == NewURL(originalReq.pathname \o originalReq.search, targetDomain)
        deleted == { p \in originalReq.headers : p[1] # "host" }
        newHeaders == { p \in deleted : p[1] # "x-forwarded-host" }
                          \cup {<<"x-forwarded-host", originalReq.host[1]>>}
        hasBody == originalReq.method # "GET"
        body == IF hasBody
                THEN (IF bodyOverride.kind # "null" THEN bodyOverride ELSE originalReq.body)
                ELSE Null
    IN [ok |-> targetUrl.ok, url |-> Href(targetUrl), method |-> originalReq.method,
        headers |-> newHeaders, body |-> body, redirect |-> "manual"]

\* Mutant of createProxyRequest: x-forwarded-host is appended, not set, so a
\* value the inbound request carried survives.
createProxyRequestAppend(targetDomain, originalReq, bodyOverride) ==
    LET targetUrl == NewURL(originalReq.pathname \o originalReq.search, targetDomain)
        deleted == { p \in originalReq.headers : p[1] # "host" }
        newHeaders == deleted \cup {<<"x-forwarded-host", originalReq.host[1]>>}
        hasBody == originalReq.method # "GET" /\ originalReq.method # "HEAD"
        body == IF hasBody
                THEN (IF bodyOverride.kind # "null" THEN bodyOverride ELSE originalReq.body)
                ELSE Null
    IN [ok |-> targetUrl.ok, url |-> Href(targetUrl), method |-> originalReq.method,
        headers |-> newHeaders, body |-> body, redirect |-> "manual"]

\* const createProxyRequest = (targetDomain, originalReq, bodyOverride = null) => ...
\* ok is FALSE when new URL throws a TypeError.
createProxyRequest(targetDomain, originalReq, bodyOverride) ==
    LET targetUrl == NewURL(originalReq.pathname \o originalReq.search, targetDomain)
        deleted == { p \in originalReq.headers : p[1] # "host" }
        newHeaders == { p \in deleted : p[1] # "x-forwarded-host" }
                          \cup {<<"x-forwarded-host", originalReq.host[1]>>}
        hasBody == originalReq.method # "GET" /\ originalReq.method # "HEAD"
        body == IF hasBody
                THEN (IF bodyOverride.kind # "null" THEN bodyOverride ELSE originalReq.body)
                ELSE Null
    IN [ok |-> targetUrl.ok, url |-> Href(targetUrl), method |-> originalReq.method,
        headers |-> newHeaders, body |-> body, redirect |-> "manual"]

----------------------------------------------------------------------------
\* One handler invocation.

\* pc: where the invocation is suspended.  req: the inbound request.
\* buffered: how await request.arrayBuffer() settled.  probe: how the fetch of
\* the primary on /api/notice settled.  read: what kv.get gave.  out: the
\* outbound requests handed to fetch, in order.  sets: the calls of kv.set, in
\* order.  write: the value of the kv.set still in flight.  resp: what the
\* caller received.
Idle == [pc |-> "idle", req |-> NoReq, bodyBuffer |-> Null, buffered |-> "none",
         probe |-> [kind |-> "none", status |-> 0], read |-> "none",
         out |-> <<>>, sets |-> <<>>, write |-> "none", resp |-> NoResp]

\* Outcomes of the call kv.set(...): the promise is created (the write is
\* in flight) or the call throws before returning one.
SetOutcomes == {"issued", "threw"}

Return(s, response) == [s EXCEPT !.pc = "done", !.resp = response]

\* fetch(createProxyRequest(targetDomain, request, bodyOverride)) issued from
\* outside a try block: a throw of createProxyRequest rejects the handler.
Forward(s, to, targetDomain, bodyOverride, nextPc) ==
    LET proxyReq == createProxyRequest(targetDomain, s.req, bodyOverride) IN
    IF proxyReq.ok
    THEN [s EXCEPT !.pc = nextPc, !.out = Append(@, [to |-> to, req |-> proxyReq])]
    ELSE Return(s, Rejected)

\* catch (error) { ... } of the /api/notice branch, lines 93-103.
Catch(s, setDown) ==
    LET called == [s EXCEPT !.sets = Append(@, [val |-> "down", outcome |-> setDown])] IN
    IF setDown = "threw" THEN Return(called, Rejected)
    ELSE Forward([called EXCEPT !.write = "down"], "backup", DOMAIN_BACKUP,
                 s.bodyBuffer, "failover")

\* try { ... await fetch(proxyReqMain, { signal }) of lines 71-78.
StartProbe(s, setDown) ==
    LET proxyReqMain == createProxyRequest(DOMAIN_MAIN, s.req, s.bodyBuffer) IN
    IF proxyReqMain.ok
    THEN [s EXCEPT !.pc = "probing",
                   !.out = Append(@, [to |-> "main", req |-> proxyReqMain])]
    ELSE Catch(s, setDown)

\* Mutant of OnBufferReject: the read error is swallowed and the probe starts.
OnBufferRejectContinue(s) == StartProbe([s EXCEPT !.buffered = "rejected"], "issued")

\* catch (e) { ... return new Response('Bad Request...', { status: 400 }) }
OnBufferReject(s) == Return([s EXCEPT !.buffered = "rejected"], BadRequestResponse)

\* Mutant of Route: the routed status is written back to the store.
RouteRecording(s, isUp) ==
    LET val == IF isUp THEN "up" ELSE "down"
        f == IF isUp THEN Forward(s, "main", DOMAIN_MAIN, Null, "forwarding")
             ELSE Forward(s, "backup", DOMAIN_BACKUP, Null, "forwarding")
    IN [f EXCEPT !.sets = Append(@, [val |-> val, outcome |-> "issued"]),
                 !.write = val]

\* Lines 123-132.
Route(s, isUp) ==
    IF isUp THEN Forward(s, "main", DOMAIN_MAIN, Null, "forwarding")
    ELSE Forward(s, "backup", DOMAIN_BACKUP, Null, "forwarding")

\* if (status === 'down') isUp = false
IsUp(status) == status # "down"

\* The order of events across invocations, kept for the properties about
\* concurrent writes.  val: the value of the last write that landed since the
\* record last expired.  by: the slot of the invocation that landed it, "none"
\* once that slot serves another request.  lands: the slots whose current
\* invocation's write landed, in landing order.  order: the slots in the
\* order their current invocations started.
NoHist == [val |-> "none", by |-> "none", lands |-> <<>>, order |-> <<>>]

Without(seq, r) == SelectSeq(seq, LAMBDA x : x # r)

----------------------------------------------------------------------------
Init ==
    /\ env \in EnvPairs
    /\ kv = "absent"
    /\ h = [r \in Slots |-> Idle]
    /\ served = 0
    /\ hist = NoHist

\* handler(request, context) from its entry to its first await or return.
\* getThrows: kv.get throws before returning a promise.
HandlerEntryStep(r) ==
    /\ h[r].pc \in {"idle", "done"}
    /\ h[r].write = "none"
    /\ served < MaxReqs
    /\ served' = served + 1
    /\ \E q \in Requests, getThrows \in BOOLEAN, setDown \in SetOutcomes :
         LET s == [Idle EXCEPT !.req = q] IN
         h' = [h EXCEPT ![r] =
                 IF ConfigMissing(DOMAIN_MAIN, DOMAIN_BACKUP)
                 THEN Return(s, ConfigErrorResponse)
                 ELSE IF q.pathname = NoticePath
                 THEN (IF q.body.kind # "null"
                       THEN [s EXCEPT !.pc = "buffering"]
                       ELSE StartProbe(s, setDown))
                 ELSE IF getThrows
                 THEN Route([s EXCEPT !.read = "threw"], TRUE)
                 ELSE [s EXCEPT !.pc = "kvget"]]
    /\ UNCHANGED <<env, kv>>

HandlerEntry(r) == HandlerEntryStep(r) /\ UNCHANGED hist

\* await request.arrayBuffer() resolves.
BufferResolve(r) ==
    /\ h[r].pc = "buffering"
    /\ \E setDown \in SetOutcomes :
         h' = [h EXCEPT ![r] =
                 StartProbe([h[r] EXCEPT !.bodyBuffer = Buffer(h[r].req.body.data),
                                         !.buffered = "resolved"], setDown)]
    /\ UNCHANGED <<env, kv, served, hist>>

\* await request.arrayBuffer() rejects.
BufferReject(r) ==
    /\ h[r].pc = "buffering"
    /\ h' = [h EXCEPT ![r] = OnBufferReject(h[r])]
    /\ UNCHANGED <<env, kv, served, hist>>

\* The primary answers the probe: lines 78-91, and 93-103 after a throw.
ProbeResponse(r) ==
    /\ h[r].pc = "probing"
    /\ \E status \in Statuses, setUp \in SetOutcomes, setDown \in SetOutcomes :
         LET responseMain == OriginResponse("main", status)
             s == [h[r] EXCEPT !.probe = [kind |-> "response", status |-> status]]
             called == [s EXCEPT !.sets = Append(@, [val |-> "up", outcome |-> setUp])]
         IN h' = [h EXCEPT ![r] =
                    IF Ok(status)
                    THEN (IF setUp = "issued"
                          THEN Return([called EXCEPT !.write = "up"], responseMain)
                          ELSE Catch(called, setDown))
                    ELSE Catch(s, setDown)]
    /\ UNCHANGED <<env, kv, served, hist>>

\* The probe's fetch rejects: a transport error, or the 10 s timer aborts it.
ProbeFail(r) ==
    /\ h[r].pc = "probing"
    /\ \E kind \in {"error", "timeout"}, setDown \in SetOutcomes :
         h' = [h EXCEPT ![r] =
                 Catch([h[r] EXCEPT !.probe = [kind |-> kind, status |-> 0]], setDown)]
    /\ UNCHANGED <<env, kv, served, hist>>

\* Mutant of BackupSettle: the backup call is made only once the kv.set
\* promise has settled (await task before the fetch).
BackupSettleAfterWrite(r) ==
    /\ h[r].pc = "failover"
    /\ h[r].write = "none"
    /\ \/ \E status \in Statuses :
            h' = [h EXCEPT ![r] = Return(h[r], OriginResponse("backup", status))]
       \/ h' = [h EXCEPT ![r] = Return(h[r], Rejected)]
    /\ UNCHANGED <<env, kv, served, hist>>

\* return fetch(proxyReqBackup) settles.
BackupSettle(r) ==
    /\ h[r].pc = "failover"
    /\ \/ \E status \in Statuses :
            h' = [h EXCEPT ![r] = Return(h[r], OriginResponse("backup", status))]
       \/ h' = [h EXCEPT ![r] = Return(h[r], Rejected)]
    /\ UNCHANGED <<env, kv, served, hist>>

\* await kv.get('primary_status') settles: lines 110-132.
KvGetSettle(r) ==
    /\ h[r].pc = "kvget"
    /\ \/ h' = [h EXCEPT ![r] = Route([h[r] EXCEPT !.read = kv], IsUp(kv))]
       \/ h' = [h EXCEPT ![r] = Route([h[r] EXCEPT !.read = "rejected"], TRUE)]
    /\ UNCHANGED <<env, kv, served, hist>>

\* return fetch(proxyReq) of lines 127 and 131 settles.
ForwardSettle(r) ==
    /\ h[r].pc = "forwarding"
    /\ LET from == h[r].out[Len(h[r].out)].to IN
       \/ \E status \in Statuses :
            h' = [h EXCEPT ![r] = Return(h[r], OriginResponse(from, status))]
       \/ h' = [h EXCEPT ![r] = Return(h[r], Rejected)]
    /\ UNCHANGED <<env, kv, served, hist>>

\* Mutant of WriteLandStep: the value is stored only when the key is not set
\* (the first writer wins).
WriteLandStepIfAbsent(r) ==
    /\ h[r].write # "none"
    /\ kv' = IF kv = "absent" THEN h[r].write ELSE kv
    /\ h' = [h EXCEPT ![r].write = "none"]
    /\ UNCHANGED <<env, served>>

\* The promise of kv.set resolves: the store holds the written value.
WriteLandStep(r) ==
    /\ h[r].write # "none"
    /\ kv' = h[r].write
    /\ h' = [h EXCEPT ![r].write = "none"]
    /\ UNCHANGED <<env, served>>

WriteLand(r) == WriteLandStep(r) /\ UNCHANGED hist

\* The promise of kv.set rejects: the store is unchanged.
WriteFail(r) ==
    /\ h[r].write # "none"
    /\ h' = [h EXCEPT ![r].write = "none"]
    /\ UNCHANGED <<env, kv, served, hist>>

\* The record's TTL ({ ex: 600 }) runs out.
ExpireStep ==
    /\ kv # "absent"
    /\ kv' = "absent"
    /\ UNCHANGED <<env, h, served>>

Expire == ExpireStep /\ UNCHANGED hist

Next ==
    \/ \E r \in Slots :
         \/ HandlerEntry(r)
         \/ BufferResolve(r)
         \/ BufferReject(r)
         \/ ProbeResponse(r)
         \/ ProbeFail(r)
         \/ BackupSettle(r)
         \/ KvGetSettle(r)
         \/ ForwardSettle(r)
         \/ WriteLand(r)
         \/ WriteFail(r)
    \/ Expire

Spec == Init /\ [][Next]_vars

----------------------------------------------------------------------------
\* The same handler with the order of starts and of landed writes recorded,
\* for one pair of origins and for the requests of HistRequests.

HistRequests ==
    { q \in Requests :
        \/ q.pathname = NoticePath
        \/ q.pathname = <<"/", "widgets">> /\ q.method = "GET" }

HistInit ==
    /\ env = [DOMAIN_MAIN |-> Str(OriginA \o <<"/">>), DOMAIN_BACKUP |-> Str(OriginB)]
    /\ kv = "absent"
    /\ h = [r \in Slots |-> Idle]
    /\ served = 0
    /\ hist = NoHist

HandlerEntryTracked(r) ==
    /\ HandlerEntryStep(r)
    /\ h'[r].req \in HistRequests
    /\ hist' = [hist EXCEPT !.order = Append(Without(@, r), r),
                            !.lands = Without(@, r),
                            !.by = IF @ = r THEN "none" ELSE @]

WriteLandTracked(r) ==
    /\ WriteLandStep(r)
    /\ hist' = [hist EXCEPT !.val = h[r].write, !.by = r,
                            !.lands = Append(Without(@, r), r)]

ExpireTracked ==
    /\ ExpireStep
    /\ hist' = [hist EXCEPT !.val = "none", !.by = "none"]

HistNext ==
    \/ \E r \in Slots :
         \/ HandlerEntryTracked(r)
         \/ BufferResolve(r)
         \/ BufferReject(r)
         \/ ProbeResponse(r)
         \/ ProbeFail(r)
         \/ BackupSettle(r)
         \/ KvGetSettle(r)
         \/ ForwardSettle(r)
         \/ WriteLandTracked(r)
         \/ WriteFail(r)
    \/ ExpireTracked

SpecHist == HistInit /\ [][HistNext]_vars

----------------------------------------------------------------------------
\* createProxyRequest on its own: every method, with and without an inbound
\* body, with and without a buffered override, towards either origin.

TranslateMethods == {"GET", "HEAD", "POST", "PUT"}

TranslateHeaders ==
    { {<<"host", "P">>},
      {<<"host", "Q">>, <<"x-forwarded-host", "Z">>, <<"accept", "any">>},
      {<<"host", "P">>, <<"x-forwarded-host", "P">>, <<"content-type", "json">>} }

\* originalReq
TranslateRequests ==
    [method : TranslateMethods, host : {<<"P">>}, pathname : {<<"/", "widgets">>},
     search : {<<"?", "id=9">>}, headers : TranslateHeaders,
     body : {Null, Stream("b1")}]

\* bodyOverride: absent, a buffer, an empty buffer (an ArrayBuffer is truthy).
Overrides == {Null, Buffer("b1"), Buffer("")}

TranslateInit ==
    /\ env = [DOMAIN_MAIN |-> Str(OriginA), DOMAIN_BACKUP |-> Str(OriginB \o <<"/">>)]
    /\ kv = "absent"
    /\ h = [r \in Slots |-> Idle]
    /\ served = 0
    /\ hist = NoHist

\* One call createProxyRequest(targetDomain, originalReq, bodyOverride).
Translate(r) ==
    /\ h[r].pc = "idle"
    /\ \E q \in TranslateRequests, to \in {"main", "backup"}, override \in Overrides :
         h' = [h EXCEPT ![r] =
                 [Idle EXCEPT !.pc = "built", !.req = q, !.bodyBuffer = override,
                              !.out = <<[to |-> to,
                                         req |-> createProxyRequest(
                                             IF to = "main" THEN DOMAIN_MAIN
                                                            ELSE DOMAIN_BACKUP,
                                             q, override)]>>]]
    /\ UNCHANGED <<env, kv, served, hist>>

TranslateNext == \E r \in Slots : Translate(r)

SpecTranslate == TranslateInit /\ [][TranslateNext]_vars

----------------------------------------------------------------------------
\* Vocabulary of the properties.

Designated(s) == s.req.pathname = NoticePath

Started(s) == s.pc # "idle"

Finished(s) == s.pc = "done"

\* The primary answered the probe with a 2xx status.
ProbeSucceeded(s) == s.probe.kind = "response" /\ s.probe.status \in 200..299

\* The primary answered with another status, was unreachable, or timed out.
ProbeFailed(s) ==
    \/ s.probe.kind \in {"error", "timeout"}
    \/ s.probe.kind = "response" /\ s.probe.status \notin 200..299

\* scheme://host of a configured origin string.
Authority(origin) == SubSeq(origin, 1, 4)

\* The outbound request o goes to the authority of origin, with the inbound
\* path and query of q.
SentTo(o, origin, q) == o.req.url = Authority(origin) \o q.pathname \o q.search

\* Every kv.set the invocation called returned its promise.
SetsIssued(s) == \A i \in 1..Len(s.sets) : s.sets[i].outcome = "issued"

NoStoreWrite(s) == s.sets = <<>> /\ s.write = "none"

\* An environment value that is missing, empty, or empty once the trailing
\* slash is stripped.
EnvEmpty(v) == v.t = "undefined" \/ v.s = <<>> \/ v.s = <<"/">>

----------------------------------------------------------------------------
\* C1: on /api/notice, when the primary answers 2xx the caller receives that
\* very response, the backup is not contacted, and kv.set('primary_status',
\* 'up') is issued.
C1_PrimaryOkReturned ==
    \A r \in Slots :
        (Finished(h[r]) /\ Designated(h[r]) /\ ProbeSucceeded(h[r])) =>
            /\ h[r].resp = OriginResponse("main", h[r].probe.status)
            /\ Len(h[r].out) = 1
            /\ h[r].out[1].to = "main"
            /\ h[r].sets = <<[val |-> "up", outcome |-> "issued"]>>

\* C2: on /api/notice, when the probe fails (non-2xx, unreachable, timeout)
\* the backup is contacted with the body that was sent to the primary, the
\* caller receives what the backup call gives, and kv.set('primary_status',
\* 'down') is issued.
C2_ProbeFailedBackupServes ==
    \A r \in Slots :
        (Designated(h[r]) /\ ProbeFailed(h[r])) =>
            /\ Len(h[r].out) = 2
            /\ h[r].out[2].to = "backup"
            /\ h[r].out[2].req.body = h[r].out[1].req.body
            /\ h[r].sets = <<[val |-> "down", outcome |-> "issued"]>>
            /\ Finished(h[r]) => h[r].resp.from \in {"backup", "rejected"}

\* C3: on any other path, when kv.get returns 'down' the request goes to the
\* backup origin with the inbound path and query, and no request goes to the
\* primary.
C3_DownRoutesToBackup ==
    \A r \in Slots :
        (~Designated(h[r]) /\ h[r].read = "down") =>
            /\ Len(h[r].out) = 1
            /\ SentTo(h[r].out[1], DOMAIN_BACKUP, h[r].req)
            /\ \A i \in 1..Len(h[r].out) : h[r].out[i].to # "main"

\* C4: on any other path, when kv.get returns nothing or 'up' the request goes
\* to the primary and the store is not written.
C4_UpRoutesToPrimaryNoWrite ==
    \A r \in Slots :
        (~Designated(h[r]) /\ h[r].read \in {"absent", "up"}) =>
            /\ Len(h[r].out) = 1
            /\ SentTo(h[r].out[1], DOMAIN_MAIN, h[r].req)
            /\ NoStoreWrite(h[r])

\* C5: on any other path, when kv.get fails (rejects or throws) the request is
\* neither failed nor blocked by it: it goes to the primary origin.
C5_ReadFailureFailsOpen ==
    \A r \in Slots :
        (~Designated(h[r]) /\ h[r].read \in {"rejected", "threw"}) =>
            /\ Len(h[r].out) = 1
            /\ SentTo(h[r].out[1], DOMAIN_MAIN, h[r].req)
            /\ Finished(h[r]) => h[r].resp.from \in {"main", "rejected"}

\* C6: whenever a contacted origin answers 3xx with a Location header, on any
\* path, the caller receives that status and header.  The case stated here is
\* the primary's answer to the probe on /api/notice, with every kv.set call
\* returning normally.
C6_RedirectPassthrough ==
    \A r \in Slots :
        (Finished(h[r]) /\ h[r].probe.kind = "response"
            /\ h[r].probe.status \in 300..399 /\ SetsIssued(h[r])) =>
            h[r].resp = OriginResponse("main", h[r].probe.status)

\* C7: on /api/notice a failing kv.set never changes the response: a 2xx
\* answer of the primary is returned as it is, and after a failed probe the
\* backup is contacted.
C7_WriteFailureHarmless ==
    \A r \in Slots :
        /\ (Finished(h[r]) /\ Designated(h[r]) /\ ProbeSucceeded(h[r])) =>
               h[r].resp = OriginResponse("main", h[r].probe.status)
        /\ (Designated(h[r]) /\ ProbeFailed(h[r])) =>
               \E i \in 1..Len(h[r].out) : h[r].out[i].to = "backup"

\* C8: when either origin value is missing or empty (also: empty once the
\* trailing slash is stripped), every request is answered with the fixed 500,
\* no origin is contacted and the store is neither read nor written.
C8_ConfigMissingFixed500 ==
    (EnvEmpty(env.DOMAIN_MAIN) \/ EnvEmpty(env.DOMAIN_BACKUP)) =>
        /\ kv = "absent"
        /\ \A r \in Slots :
            Started(h[r]) =>
                /\ Finished(h[r])
                /\ h[r].resp = ConfigErrorResponse
                /\ h[r].out = <<>>
                /\ h[r].read = "none"
                /\ NoStoreWrite(h[r])

\* A request to /api/notice answered 500 under a backup value of "/".
C8_Witness ==
    \E r \in Slots :
        /\ env.DOMAIN_BACKUP = Str(<<"/">>)
        /\ Designated(h[r])
        /\ h[r].resp = ConfigErrorResponse

\* C9: on /api/notice, when reading the inbound body fails the handler answers
\* 400 at once: no origin is contacted and the store is not written.
C9_BodyReadFailure400 ==
    \A r \in Slots :
        h[r].buffered = "rejected" =>
            /\ Finished(h[r])
            /\ h[r].resp = BadRequestResponse
            /\ h[r].out = <<>>
            /\ NoStoreWrite(h[r])

\* The body of a POST to /api/notice could not be read.
C9_Witness ==
    \E r \in Slots :
        /\ h[r].buffered = "rejected"
        /\ Designated(h[r])
        /\ h[r].req.body.kind = "stream"
        /\ h[r].resp.status = 400

\* C10: every outbound URL is the target origin string followed by the
\* inbound path and query.
C10_TargetUrlIsConcatenation ==
    \A r \in Slots :
        \A i \in 1..Len(h[r].out) :
            h[r].out[i].req.url =
                (IF h[r].out[i].to = "main" THEN DOMAIN_MAIN ELSE DOMAIN_BACKUP)
                    \o h[r].req.pathname \o h[r].req.search

\* C11: a GET or HEAD request is forwarded without a body whatever the
\* inbound request carried and whatever override was supplied; for every other
\* method the outbound body is the override if one was supplied, else the
\* inbound body.
C11_BodyByMethod ==
    \A r \in Slots :
        \A i \in 1..Len(h[r].out) :
            LET o == h[r].out[i].req
                q == h[r].req
                override == h[r].bodyBuffer
            IN IF q.method \in {"GET", "HEAD"}
               THEN o.body.kind = "null"
               ELSE o.body = (IF override.kind = "null" THEN q.body ELSE override)

\* A HEAD request that carried a body and was given an override, and a POST
\* whose override is an empty buffer.
C11_Witness ==
    /\ \E r \in Slots :
        /\ h[r].req.method = "HEAD"
        /\ h[r].req.body.kind = "stream"
        /\ h[r].bodyBuffer.kind = "buffer"
        /\ Len(h[r].out) = 1
    /\ \E r \in Slots :
        /\ h[r].req.method = "POST"
        /\ h[r].bodyBuffer = Buffer("")
        /\ Len(h[r].out) = 1
        /\ h[r].out[1].req.body = Buffer("")

\* The names of a header set.
Names(hs) == { p[1] : p \in hs }

\* C12: the outbound headers are the inbound headers without Host, with
\* X-Forwarded-Host holding the host of the inbound URL in place of any
\* inbound X-Forwarded-Host, and every other header as it came.
C12_HeaderContract ==
    \A r \in Slots :
        \A i \in 1..Len(h[r].out) :
            LET o == h[r].out[i].req.headers
                q == h[r].req
            IN /\ "host" \notin Names(o)
               /\ \A p \in o : p[1] = "x-forwarded-host" => p[2] = q.host[1]
               /\ "x-forwarded-host" \in Names(o)
               /\ \A p \in q.headers :
                    p[1] \notin {"host", "x-forwarded-host"} => p \in o
               /\ \A p \in o : p[1] # "x-forwarded-host" => p \in q.headers

\* An inbound request that carried its own X-Forwarded-Host and another header.
C12_Witness ==
    \E r \in Slots :
        /\ <<"x-forwarded-host", "Z">> \in h[r].req.headers
        /\ <<"accept", "any">> \in h[r].req.headers
        /\ Len(h[r].out) = 1
        /\ <<"x-forwarded-host", "P">> \in h[r].out[1].req.headers

\* C13: a request to a path other than /api/notice never calls kv.set,
\* whatever it read and however its origin answered; every change of the
\* record is the landing of a write of an /api/notice request or the expiry
\* of the TTL.
C13_OnlyProbePathWrites ==
    /\ [](\A r \in Slots : (Started(h[r]) /\ ~Designated(h[r])) => NoStoreWrite(h[r]))
    /\ [][kv' # kv =>
            \/ kv' = "absent" /\ h' = h
            \/ \E r \in Slots :
                 /\ Designated(h[r])
                 /\ h[r].write = kv'
                 /\ h'[r].write = "none"]_vars

\* A request to another path that read 'down', got a 500 from its origin and
\* left the record as it was.
C13_Witness ==
    \E r \in Slots :
        /\ ~Designated(h[r])
        /\ Finished(h[r])
        /\ h[r].read = "down"
        /\ h[r].resp.status = 500
        /\ NoStoreWrite(h[r])
        /\ kv = "down"

\* C14: on /api/notice the primary is contacted first and at most once, the
\* backup at most once and only after the primary attempt has failed, and a
\* failure of the backup call reaches the caller with no further attempt.
C14_ProbeThenBackupOnce ==
    \A r \in Slots :
        Designated(h[r]) =>
            /\ Len(h[r].out) <= 2
            /\ Len(h[r].out) >= 1 => h[r].out[1].to = "main"
            /\ Len(h[r].out) = 2 =>
                 /\ h[r].out[2].to = "backup"
                 /\ ProbeFailed(h[r])
                 /\ Finished(h[r]) => h[r].resp.from \in {"backup", "rejected"}

\* The origin the record value read selects.
Chosen(read) == IF read = "down" THEN DOMAIN_BACKUP ELSE DOMAIN_MAIN

\* C15: a request to another path makes exactly one outbound call, to the
\* origin chosen from the value read; a failure or an error status of that
\* call reaches the caller as it is and the other origin is not contacted.
C15_SingleCallNoFallback ==
    \A r \in Slots :
        (~Designated(h[r]) /\ h[r].read # "none") =>
            /\ Len(h[r].out) = 1
            /\ SubSeq(h[r].out[1].req.url, 1, 4) = Authority(Chosen(h[r].read))
            /\ Finished(h[r]) =>
                 \/ h[r].resp = Rejected
                 \/ h[r].resp = OriginResponse(h[r].out[1].to, h[r].resp.status)

\* C16: when the probe timer fires on /api/notice the probe counts as failed:
\* the record is written 'down' and the request is forwarded to the backup,
\* so the request ends with what the backup call gives.
C16_TimeoutFailsOver ==
    \A r \in Slots :
        (Designated(h[r]) /\ h[r].probe.kind = "timeout") =>
            /\ \E i \in 1..Len(h[r].sets) :
                 h[r].sets[i] = [val |-> "down", outcome |-> "issued"]
            /\ Len(h[r].out) = 2 /\ h[r].out[2].to = "backup"
            /\ h[r].pc \in {"failover", "done"}

\* C17: a kv.set in flight never holds the response back: with 'up' in flight
\* the caller already has the primary's response, with 'down' in flight the
\* backup call is already made and can settle while the write is pending.
C17_WriteDetached ==
    \A r \in Slots :
        /\ h[r].write = "up" =>
             /\ Finished(h[r])
             /\ h[r].resp = OriginResponse("main", h[r].probe.status)
        /\ h[r].write = "down" =>
             /\ h[r].pc \in {"failover", "done"}
             /\ h[r].out[Len(h[r].out)].to = "backup"
             /\ h[r].pc = "failover" => ENABLED BackupSettle(r)

\* The caller has the primary's response while the write of 'up' is pending
\* and the record still says 'down'; another caller has the backup's response
\* while its write of 'down' is pending.
C17_Witness ==
    \/ \E r \in Slots :
        /\ Finished(h[r])
        /\ h[r].resp.from = "main"
        /\ h[r].write = "up"
        /\ kv = "down"
    \/ \E r \in Slots :
        /\ Finished(h[r])
        /\ h[r].resp.from = "backup"
        /\ h[r].write = "down"
        /\ kv = "up"

\* C19: /api/notice never reads the record and always probes the primary; a
\* request whose probe returns 2xx writes 'up' (and nothing else), and a
\* request to another path that reads 'up' is routed to the primary.
C19_ProbeFlipsRecordBack ==
    \A r \in Slots :
        /\ (Designated(h[r]) /\ h[r].pc \in {"probing", "failover"}) =>
             /\ h[r].read = "none"
             /\ h[r].out[1].to = "main"
        /\ (Designated(h[r]) /\ ProbeSucceeded(h[r])) =>
             /\ h[r].sets = <<[val |-> "up", outcome |-> "issued"]>>
             /\ h[r].write \in {"up", "none"}
        /\ (~Designated(h[r]) /\ h[r].read = "up") => h[r].out[1].to = "main"

\* C20: every outbound request goes to the authority of DOMAIN_MAIN or of
\* DOMAIN_BACKUP.
C20_OnlyConfiguredAuthorities ==
    \A r \in Slots :
        \A i \in 1..Len(h[r].out) :
            SubSeq(h[r].out[i].req.url, 1, 4)
                \in {Authority(DOMAIN_MAIN), Authority(DOMAIN_BACKUP)}

\* The value of the one kv.set an invocation issued.
Issued(s) == s.sets[Len(s.sets)].val

\* C18: writers overwrite unconditionally: as long as the record has not
\* expired since, it holds the value of the write that landed last, which is
\* the value the invocation that landed it had issued; the record is always
\* 'up', 'down' or absent.
C18_LastWriterWins ==
    /\ kv \in {"up", "down", "absent"}
    /\ hist.val = "none" => kv = "absent"
    /\ hist.val # "none" => kv = hist.val
    /\ hist.by # "none" =>
         /\ hist.lands[Len(hist.lands)] = hist.by
         /\ Issued(h[hist.by]) = kv

\* Two probes that overlapped have both finished and both their writes have
\* landed; the one that started first landed last, and the record holds its
\* value, not the value of the probe that started last.
C18_Witness ==
    /\ Len(hist.order) = 2
    /\ hist.lands = <<hist.order[2], hist.order[1]>>
    /\ hist.by = hist.order[1]
    /\ \A r \in Slots :
         /\ Designated(h[r])
         /\ Finished(h[r])
         /\ h[r].write = "none"
    /\ Issued(h[hist.order[1]]) # Issued(h[hist.order[2]])
    /\ kv = Issued(h[hist.order[1]])

====
